---- MODULE Spec2Model ----
(***************************************************************************)
(* Model of atomate's amset firetasks: the convergence predicate           *)
(* _is_converged (firetasks/glue_tasks.py) and the tasks of AmsetFW        *)
(* (fireworks/core.py) that use it.                                        *)
(*                                                                         *)
(* Numbers.  Tensor entries are integers in tenths of a unit.  A tensor is *)
(* given by its three principal components, and its average is kept as the *)
(* sum of the components, i.e. in units of 1/30: the average 100 is 3000,  *)
(* 0.5 is 15, and the threshold 1 of _is_converged is 30.  Quotients are   *)
(* exact rationals [num, den]; a quotient with den = 0 is numpy's inf/nan. *)
(***************************************************************************)
EXTENDS Integers, Sequences, FiniteSets, TLC

VARIABLES
    \* a call of _is_converged on its own
    new_transport, old_transport, tol, properties, converged, pc,
    \* a workflow of amset attempts
    fw_spec,      \* the spec the running Firework's tasks see
    task_i,       \* position in the Firework's task list
    status,       \* "IDLE", "RUNNING", "COMPLETED" or "FIZZLED"
    cwd,          \* the launch directory of the running Firework
    dirs,         \* the files of every directory: settings.yaml, transport_*.json
    detours,      \* FWAction.detours of the Firework's last task
    conv_call,    \* the arguments _is_converged was invoked with in this launch
    error         \* the exception that fizzled the Firework

conv_vars == <<new_transport, old_transport, tol, properties, converged, pc>>

wf_vars == <<fw_spec, task_i, status, cwd, dirs, detours, conv_call, error>>

vars == <<new_transport, old_transport, tol, properties, converged, pc,
          fw_spec, task_i, status, cwd, dirs, detours, conv_call, error>>

----------------------------------------------------------------------------
(* Bounds and input sets *)

\* number of (temperature, doping) grid points of a transport property
GridLen == 2

\* glue_tasks.py:172, the threshold 1 in units of 1/30
One == 30

Iso(v) == <<v, v, v>>

\* mobility tensors: averages 0.5, 0.6, 100 (anisotropic), 105, 120
MobilityTensors ==
    {Iso(5), Iso(6), <<900, 1000, 1100>>, Iso(1050), Iso(1200)}

\* Seebeck tensors: averages -120, -100, 0, 100
SeebeckTensors == {Iso(0 - 1200), Iso(0 - 1000), Iso(0), Iso(1000)}

\* a property on the grid: one grid point holds a, the others hold ref
GridArray(ref, a, k) == [i \in 1..GridLen |-> IF i = k THEN a ELSE ref]

MobilityArrays ==
    {GridArray(<<900, 1000, 1100>>, a, k) : a \in MobilityTensors, k \in 1..GridLen}

SeebeckArrays ==
    {GridArray(Iso(0 - 1000), a, k) : a \in SeebeckTensors, k \in 1..GridLen}

\* glue_tasks.py:14
_CONVERGENCE_PROPERTIES == <<"mobility.overall", "seebeck">>

Paths == {"mobility.overall", "seebeck"}

\* a transport record: the dotted paths that resolve in it, with their values
Records ==
    UNION {{r \in [D -> MobilityArrays \cup SeebeckArrays] :
              /\ "mobility.overall" \in D => r["mobility.overall"] \in MobilityArrays
              /\ "seebeck" \in D => r["seebeck"] \in SeebeckArrays} :
           D \in SUBSET Paths}

\* property selector lists: every ordering of every subset of the paths
PropertyLists ==
    {<<>>} \cup {<<p>> : p \in Paths}
           \cup {<<p, q>> : p \in Paths, q \in Paths}

Rat(n, d) == [num |-> n, den |-> d]

\* relative tolerances 0.1 (the default) and 0.4 (test_amset.py:40)
Tolerances == {Rat(1, 10), Rat(4, 10)}

----------------------------------------------------------------------------
(* _is_converged *)

Abs(x) == IF x < 0 THEN 0 - x ELSE x

Sign(x) == IF x < 0 THEN 0 - 1 ELSE IF x = 0 THEN 0 ELSE 1

\* pydash get(record, path, None): <<value>> when the path resolves, <<>> for None
Get(record, path) ==
    IF path \in DOMAIN record THEN <<record[path]>> ELSE <<>>

IsNone(x) == Len(x) = 0

\* amset.util.tensor_average of one tensor, in units of 1/30
TensorAverageOne(t) == t[1] + t[2] + t[3]

\* tensor_average over the grid
tensor_average(prop) == [i \in DOMAIN prop |-> TensorAverageOne(prop[i])]

IsFinite(q) == q.den # 0

\* q <= t for rationals; False when q is inf or nan, as in numpy comparisons
Leq(q, t) ==
    /\ IsFinite(q)
    /\ q.num * Sign(q.den) * Abs(t.den) <= t.num * Sign(t.den) * Abs(q.den)

\* slips of lines 168-169: the isfinite fix left out; the absolute value taken
\* of the numerator only; the parentheses misplaced, new_avg - old_avg / new_avg
DiffNoFiniteFix(new_avg, old_avg) ==
    Rat(Abs(new_avg - old_avg), Abs(new_avg))

DiffSignedDenominator(new_avg, old_avg) ==
    IF new_avg = 0 THEN Rat(0, 1) ELSE Rat(Abs(new_avg - old_avg), new_avg)

DiffMisplacedParenthesis(new_avg, old_avg) ==
    IF new_avg = 0 THEN Rat(0, 1)
    ELSE Rat(Abs(new_avg * new_avg - old_avg * One), Abs(new_avg) * One)

\* lines 168-169: diff = np.abs((new_avg - old_avg) / new_avg);
\*                diff[~np.isfinite(diff)] = 0
Diff(new_avg, old_avg) ==
    LET quotient == Rat(new_avg - old_avg, new_avg)
        diff == Rat(Abs(quotient.num), Abs(quotient.den))
    IN  IF IsFinite(diff) THEN diff ELSE Rat(0, 1)

\* line 172: less_than_one = (new_avg < 1) & (old_avg < 1)
LessThanOne(new_avg, old_avg) == (new_avg < One) /\ (old_avg < One)

\* line 173: element_converged = less_than_one | (diff <= tol)
ElementConverged(new_avg, old_avg, t) ==
    LessThanOne(new_avg, old_avg) \/ Leq(Diff(new_avg, old_avg), t)

\* line 174: np.all(element_converged)
AllElementsConverged(new_prop, old_prop, t) ==
    LET new_avg == tensor_average(new_prop)
        old_avg == tensor_average(old_prop)
    IN  \A i \in DOMAIN new_avg : ElementConverged(new_avg[i], old_avg[i], t)

\* slips of the loop: a missing property ends the loop; the flag is overwritten
\* by the last property instead of accumulated; nothing evaluated counts as
\* not converged
RECURSIVE LoopBreakOnMissing(_, _, _, _, _, _)
LoopBreakOnMissing(new, old, t, props, i, conv) ==
    IF i > Len(props) THEN conv
    ELSE LET new_prop == Get(new, props[i])
             old_prop == Get(old, props[i])
         IN  IF IsNone(new_prop) \/ IsNone(old_prop) THEN conv
             ELSE LoopBreakOnMissing(new, old, t, props, i + 1,
                      conv /\ AllElementsConverged(new_prop[1], old_prop[1], t))

RECURSIVE LoopLastWins(_, _, _, _, _, _)
LoopLastWins(new, old, t, props, i, conv) ==
    IF i > Len(props) THEN conv
    ELSE LET new_prop == Get(new, props[i])
             old_prop == Get(old, props[i])
         IN  IF IsNone(new_prop) \/ IsNone(old_prop)
             THEN LoopLastWins(new, old, t, props, i + 1, conv)
             ELSE LoopLastWins(new, old, t, props, i + 1,
                      AllElementsConverged(new_prop[1], old_prop[1], t))

\* lines 158-176: the loop over the properties, from the i-th on, with the
\* flag `converged` so far
RECURSIVE ConvergedLoop(_, _, _, _, _, _)
ConvergedLoop(new, old, t, props, i, conv) ==
    IF i > Len(props) THEN conv
    ELSE LET new_prop == Get(new, props[i])
             old_prop == Get(old, props[i])
         IN  IF IsNone(new_prop) \/ IsNone(old_prop)
             THEN ConvergedLoop(new, old, t, props, i + 1, conv)
             ELSE ConvergedLoop(new, old, t, props, i + 1,
                      IF ~AllElementsConverged(new_prop[1], old_prop[1], t)
                      THEN FALSE ELSE conv)

Evaluated(new, old, props) ==
    {i \in 1..Len(props) :
        ~IsNone(Get(new, props[i])) /\ ~IsNone(Get(old, props[i]))}

IsConvergedNeedsOne(new, old, t, props) ==
    /\ Evaluated(new, old, props) # {}
    /\ ConvergedLoop(new, old, t, props, 1, TRUE)

\* lines 155-181
_is_converged(new, old, t, props) ==
    ConvergedLoop(new, old, t, props, 1, TRUE)

----------------------------------------------------------------------------
(* Settings, files and Firework specs *)

\* the longest chain of amset attempts followed
MaxAttempts == 2

None == <<>>

Some(x) == <<x>>

\* dict.update
Update(d, u) ==
    [k \in DOMAIN d \cup DOMAIN u |-> IF k \in DOMAIN u THEN u[k] ELSE d[k]]

EmptyDict == [k \in {} |-> 0]

NoFiles == [settings |-> None, transport |-> None]

\* settings given to AmsetFW: with and without an interpolation_factor
\* (test_amset.py:19-35 gives interpolation_factor 2)
SettingsChoices ==
    {[interpolation_factor |-> 2, doping |-> 1], [doping |-> 1]}

\* the worker's env entry "amset_settings_updates" (test_amset.py:49-50)
EnvChoices ==
    {EmptyDict, [nworkers |-> 4], [interpolation_factor |-> 5]}

\* what an amset run can write as transport_*.json: the Seebeck coefficient
\* always, the mobility unless the material is a metal
AmsetOutputs ==
    {r \in Records :
        /\ "seebeck" \in DOMAIN r
        /\ r["seebeck"] \in {GridArray(Iso(0 - 1000), a, 1) :
                                a \in {Iso(0 - 1000), Iso(0 - 1200)}}
        /\ "mobility.overall" \in DOMAIN r =>
              /\ r["seebeck"] = GridArray(Iso(0 - 1000), Iso(0 - 1000), 1)
              /\ r["mobility.overall"] \in
                   {GridArray(<<900, 1000, 1100>>, a, 1) :
                       a \in {<<900, 1000, 1100>>, Iso(1200)}}}

\* scheduling metadata and other keys a Firework spec may carry
SpecExtras ==
    {EmptyDict,
     [_fworker |-> "worker1", _category |-> "amset", _queueadaptor |-> "q1",
      tags |-> "mp-989551"],
     [_category |-> "amset", tags |-> "mp-989551"]}

CalcLoc(name, path) == [name |-> name, path |-> path]

\* "amset" in calc_loc["name"]
ContainsAmset(name) == name \in {"amset", "amset coarse"}

----------------------------------------------------------------------------
(* AmsetFW.__init__ (fireworks/core.py) *)

UpdateSettingsDict(settings) ==
    [name |-> "UpdateSettings", env_chk |-> FALSE, settings_updates |-> settings]

UpdateSettingsEnv(key) ==
    [name |-> "UpdateSettings", env_chk |-> TRUE, settings_updates |-> key]

\* core.py:59-90; settings is None or Some(dict).  The Firework is its spec,
\* which Firework.__init__ starts as {"_tasks": t}
AmsetFW(input_source, settings, convergence_tol, resubmit) ==
    LET t0 == IF input_source = "prev"
              THEN <<[name |-> "CopyInputs", calc_loc |-> TRUE]>>
              ELSE <<[name |-> "WriteInputsFromMp", mp_id |-> input_source]>>
        t1 == IF settings # None
              THEN t0 \o <<UpdateSettingsDict(settings[1])>> ELSE t0
        t2 == t1 \o <<UpdateSettingsEnv("amset_settings_updates"),
                      [name |-> "RunAmset"]>>
        t3 == IF resubmit
              THEN t2 \o <<[name |-> "CheckConvergence",
                            tolerance |-> Some(convergence_tol),
                            properties |-> None]>>
              ELSE t2
        t4 == t3 \o <<[name |-> "PassCalcLocs", locname |-> "amset"],
                      [name |-> "AmsetToDb"]>>
        t5 == IF resubmit
              THEN t4 \o <<[name |-> "ResubmitUnconverged",
                            interpolation_increase |-> None]>>
              ELSE t4
    IN  [spec |-> ("_tasks" :> t5)]

\* the same Firework with ResubmitUnconverged given interpolation_increase
WithIncrease(fw, inc) ==
    LET t == fw.spec["_tasks"]
    IN  [spec |-> ("_tasks" :>
            [i \in DOMAIN t |->
                IF t[i].name = "ResubmitUnconverged"
                THEN [name |-> "ResubmitUnconverged", interpolation_increase |-> inc]
                ELSE t[i]])]

----------------------------------------------------------------------------
(* The tasks of a Firework, run in order in its launch directory *)

tasks == fw_spec["_tasks"]

Running(name) ==
    /\ status = "RUNNING"
    /\ task_i <= Len(tasks)
    /\ tasks[task_i].name = name

\* the Firework moves on to its next task, or completes after its last one
Advance ==
    /\ task_i' = task_i + 1
    /\ status' = IF task_i = Len(tasks) THEN "COMPLETED" ELSE "RUNNING"
    /\ error' = error

\* a task raised: the Firework fizzles and its remaining tasks do not run
Fizzle(exception) ==
    /\ status' = "FIZZLED"
    /\ error' = exception
    /\ task_i' = task_i

WriteFile(file, content) == [dirs EXCEPT ![cwd][file] = Some(content)]

\* env_chk(settings_updates, fw_spec) of atomate.utils.utils
EnvChk(task) ==
    IF task.env_chk THEN fw_spec["_fw_env"][task.settings_updates]
    ELSE task.settings_updates

\* get_calc_loc(True, calc_locs): the most recent calc_loc
GetCalcLoc(calc_locs) == calc_locs[Len(calc_locs)]

\* glue_tasks.py:42-71: settings.yaml is among _INPUTS, transport files are not
CopyInputs ==
    /\ Running("CopyInputs")
    /\ IF "calc_locs" \notin DOMAIN fw_spec
       THEN Fizzle("KeyError") /\ UNCHANGED dirs
       ELSE IF Len(fw_spec["calc_locs"]) = 0
       THEN Fizzle("IndexError") /\ UNCHANGED dirs
       ELSE LET calc_loc == GetCalcLoc(fw_spec["calc_locs"])
                from_file == dirs[calc_loc.path].settings
            IN  /\ dirs' = IF from_file # None
                           THEN WriteFile("settings", from_file[1]) ELSE dirs
                /\ Advance
    /\ UNCHANGED <<fw_spec, cwd, detours, conv_call>>
    /\ UNCHANGED conv_vars

\* write_inputs.py:35-74: writes band_structure_data.json only
WriteInputsFromMp ==
    /\ Running("WriteInputsFromMp")
    /\ Advance
    /\ UNCHANGED <<fw_spec, cwd, dirs, detours, conv_call>>
    /\ UNCHANGED conv_vars

\* write_inputs.py:104-112
UpdateSettings ==
    /\ Running("UpdateSettings")
    /\ LET settings == IF dirs[cwd].settings # None
                       THEN dirs[cwd].settings[1] ELSE EmptyDict
           settings_updates == EnvChk(tasks[task_i])
       IN  dirs' = WriteFile("settings", Update(settings, settings_updates))
    /\ Advance
    /\ UNCHANGED <<fw_spec, cwd, detours, conv_call>>
    /\ UNCHANGED conv_vars

\* run_calc.py:18-22: amset writes the transport file of this run
RunAmset ==
    /\ Running("RunAmset")
    /\ \E transport \in AmsetOutputs : dirs' = WriteFile("transport", transport)
    /\ Advance
    /\ UNCHANGED <<fw_spec, cwd, detours, conv_call>>
    /\ UNCHANGED conv_vars

\* glue_tasks.py:96-103: the previous transport record, None when there is none
OldTransport(spec) ==
    LET calc_locs == IF "calc_locs" \in DOMAIN spec THEN spec["calc_locs"] ELSE <<>>
    IN  IF Len(calc_locs) > 0 /\ ContainsAmset(calc_locs[Len(calc_locs)].name)
        THEN dirs[calc_locs[Len(calc_locs)].path].transport
        ELSE None

\* bool(old_transport) of line 105: None and the empty mapping are false
Truthy(transport) == transport # None /\ DOMAIN transport[1] # {}

\* line 93: self.get("tolerance") or 0.1
Tolerance(task) ==
    IF task.tolerance = None \/ task.tolerance[1].num = 0
    THEN Rat(1, 10) ELSE task.tolerance[1]

\* line 94: self.get("properties") or _CONVERGENCE_PROPERTIES
Properties(task) ==
    IF task.properties = None \/ Len(task.properties[1]) = 0
    THEN _CONVERGENCE_PROPERTIES ELSE task.properties[1]

\* line 111 with True in place of False
ConvergedWithoutPriorTrue == TRUE

\* line 111: converged = False
ConvergedWithoutPrior == FALSE

\* glue_tasks.py:92-113; the returned update_spec is applied to the spec the
\* following tasks see
CheckConvergence ==
    /\ Running("CheckConvergence")
    /\ LET t == Tolerance(tasks[task_i])
           props == Properties(tasks[task_i])
           old == OldTransport(fw_spec)
           new == dirs[cwd].transport
       IN  IF Truthy(old)
           THEN IF new = None
                THEN /\ Fizzle("StopIteration")
                     /\ UNCHANGED <<fw_spec, conv_call>>
                ELSE /\ conv_call' = Some([new |-> new[1], old |-> old[1],
                                           tol |-> t, properties |-> props])
                     /\ fw_spec' = Update(fw_spec,
                            "converged" :> _is_converged(new[1], old[1], t, props))
                     /\ Advance
           ELSE /\ fw_spec' = Update(fw_spec, "converged" :> ConvergedWithoutPrior)
                /\ conv_call' = conv_call
                /\ Advance
    /\ UNCHANGED <<cwd, dirs, detours>>
    /\ UNCHANGED conv_vars

\* PassCalcLocs(name="amset") of core.py:84: pushes this launch's directory
\* onto calc_locs
PassCalcLocs ==
    /\ Running("PassCalcLocs")
    /\ LET calc_locs == IF "calc_locs" \in DOMAIN fw_spec
                        THEN fw_spec["calc_locs"] ELSE <<>>
       IN  fw_spec' = Update(fw_spec,
               "calc_locs" :> Append(calc_locs, CalcLoc(tasks[task_i].locname, cwd)))
    /\ Advance
    /\ UNCHANGED <<cwd, dirs, detours, conv_call>>
    /\ UNCHANGED conv_vars

\* parse_outputs.py:43-66: reads settings.yaml and the transport file, stores a
\* document; nothing the other tasks read is changed
AmsetToDb ==
    /\ Running("AmsetToDb")
    /\ Advance
    /\ UNCHANGED <<fw_spec, cwd, dirs, detours, conv_call>>
    /\ UNCHANGED conv_vars

\* core.py:18, the default convergence_tol of AmsetFW
DefaultConvergenceTol == Rat(1, 10)

\* line 131: self.get("interpolation_increase") or 10
InterpolationIncrease(task) ==
    IF task.interpolation_increase = None \/ task.interpolation_increase[1] = 0
    THEN 10 ELSE task.interpolation_increase[1]

\* the allow-list widened to every key of the parent's spec but its tasks
fkWholeSpec ==
    <<"_fworker", "_category", "_queueadaptor", "calc_locs", "converged", "tags",
      "_fw_env">>

\* line 149
fk == <<"_fworker", "_category", "_queueadaptor", "calc_locs">>

\* line 151: {k: fw_spec[k] for k in fk if k in fw_spec}
CarriedForward(spec) ==
    [k \in {fk[i] : i \in DOMAIN fk} \cap DOMAIN spec |-> spec[k]]

\* glue_tasks.py:130-152
ResubmitUnconverged ==
    /\ Running("ResubmitUnconverged")
    /\ LET inter_inc == InterpolationIncrease(tasks[task_i])
           conv == IF "converged" \in DOMAIN fw_spec
                   THEN fw_spec["converged"] ELSE TRUE
           file == dirs[cwd].settings
       IN  IF ~conv
           THEN IF file = None
                THEN Fizzle("FileNotFoundError") /\ UNCHANGED detours
                ELSE IF "interpolation_factor" \notin DOMAIN file[1]
                THEN Fizzle("KeyError") /\ UNCHANGED detours
                ELSE LET settings ==
                             [file[1] EXCEPT !["interpolation_factor"] = @ + inter_inc]
                         fw == AmsetFW("prev", Some(settings),
                                       DefaultConvergenceTol, TRUE)
                     IN  /\ detours' =
                              <<[spec |-> Update(fw.spec, CarriedForward(fw_spec))]>>
                         /\ Advance
           ELSE /\ detours' = <<>>
                /\ Advance
    /\ UNCHANGED <<fw_spec, cwd, dirs, conv_call>>
    /\ UNCHANGED conv_vars

\* the workflow engine launches the detour in a fresh directory; the tasks see
\* the detour's spec and the worker's env
LaunchDetour ==
    /\ status = "COMPLETED"
    /\ detours # <<>>
    /\ cwd < MaxAttempts
    /\ fw_spec' = Update(detours[1].spec, "_fw_env" :> fw_spec["_fw_env"])
    /\ cwd' = cwd + 1
    /\ task_i' = 1
    /\ status' = "RUNNING"
    /\ detours' = <<>>
    /\ conv_call' = None
    /\ UNCHANGED <<dirs, error>>
    /\ UNCHANGED conv_vars

----------------------------------------------------------------------------
(* The workflow: an AmsetFW launched by a worker, and the detours it makes *)

\* the directory and calc_locs left by the workflow's earlier Fireworks
PriorChoices ==
    {[calc_locs |-> None, files |-> NoFiles],
     [calc_locs |-> Some(<<CalcLoc("nscf", 0)>>), files |-> NoFiles]}
    \cup
    {[calc_locs |-> Some(<<CalcLoc("amset", 0)>>),
      files |-> [settings |-> Some([interpolation_factor |-> 2, doping |-> 1]),
                 transport |-> tr]] :
        tr \in {None} \cup {Some(r) : r \in AmsetOutputs}}

Init ==
    /\ \E input_source \in {"mp-1100908", "prev"},
          settings \in {None} \cup {Some(s) : s \in SettingsChoices},
          convergence_tol \in Tolerances,
          resubmit \in BOOLEAN,
          inc \in {None, Some(0), Some(5)},
          extras \in SpecExtras,
          env \in EnvChoices,
          prior \in PriorChoices :
        \* core.py:61-64: settings are required unless the source is "prev"
        /\ settings = None => input_source = "prev"
        /\ LET fw == WithIncrease(
                         AmsetFW(input_source, settings, convergence_tol, resubmit),
                         inc)
               locs == IF prior.calc_locs = None THEN EmptyDict
                       ELSE "calc_locs" :> prior.calc_locs[1]
           IN  fw_spec = Update(Update(Update(fw.spec, extras), locs),
                                "_fw_env" :> [amset_settings_updates |-> env])
        /\ dirs = [d \in 0..MaxAttempts |-> IF d = 0 THEN prior.files ELSE NoFiles]
    /\ task_i = 1
    /\ status = "RUNNING"
    /\ cwd = 1
    /\ detours = <<>>
    /\ conv_call = None
    /\ error = "none"
    /\ new_transport = EmptyDict
    /\ old_transport = EmptyDict
    /\ tol = Rat(1, 10)
    /\ properties = <<>>
    /\ converged = FALSE
    /\ pc = "idle"

Next ==
    \/ CopyInputs
    \/ WriteInputsFromMp
    \/ UpdateSettings
    \/ RunAmset
    \/ CheckConvergence
    \/ PassCalcLocs
    \/ AmsetToDb
    \/ ResubmitUnconverged
    \/ LaunchDetour

Spec == Init /\ [][Next]_vars

----------------------------------------------------------------------------
(* The predicate on its own: inputs drawn from the sets above *)

InitConv ==
    /\ new_transport \in Records
    /\ old_transport \in Records
    /\ tol \in Tolerances
    /\ properties \in PropertyLists
    /\ converged = FALSE
    /\ pc = "call"
    /\ fw_spec = EmptyDict
    /\ task_i = 0
    /\ status = "IDLE"
    /\ cwd = 0
    /\ dirs = EmptyDict
    /\ detours = <<>>
    /\ conv_call = None
    /\ error = "none"

CallIsConverged ==
    /\ pc = "call"
    /\ converged' = _is_converged(new_transport, old_transport, tol, properties)
    /\ pc' = "done"
    /\ UNCHANGED <<new_transport, old_transport, tol, properties>>
    /\ UNCHANGED wf_vars

NextConv == CallIsConverged

SpecConv == InitConv /\ [][NextConv]_vars

----------------------------------------------------------------------------
(* Properties of _is_converged, checked under SpecConv *)

Done == pc = "done"

NewAvg(i) == tensor_average(new_transport[properties[i]])

OldAvg(i) == tensor_average(old_transport[properties[i]])

\* the positions of `properties` whose path is in both records
EvaluatedHere == Evaluated(new_transport, old_transport, properties)

Grid == 1..GridLen

\* some evaluated property has an element with these averages (units of 1/30)
HasElement(new_avg, old_avg) ==
    \E i \in EvaluatedHere : \E j \in Grid :
        NewAvg(i)[j] = new_avg /\ OldAvg(i)[j] = old_avg

RemoveAt(s, i) == [j \in 1..(Len(s) - 1) |-> IF j < i THEN s[j] ELSE s[j + 1]]

\* C1: the result is True exactly when every element of every evaluated
\* property is exempted or has diff <= tol (exemption and diff as the code
\* computes them); one element with old 100, new 120 at tol 0.1 gives False.
C1_AndOverEvaluatedProperties ==
    Done =>
        /\ converged <=>
             \A i \in EvaluatedHere : \A j \in Grid :
                \/ LessThanOne(NewAvg(i)[j], OldAvg(i)[j])
                \/ Leq(Diff(NewAvg(i)[j], OldAvg(i)[j]), tol)
        /\ (tol = Rat(1, 10) /\ HasElement(3600, 3000)) => ~converged

\* two properties are evaluated, the Seebeck coefficient is unchanged and the
\* mobility goes from 100 to 120 at one grid point: not converged at tol 0.1
C1_Witness ==
    /\ Done
    /\ tol = Rat(1, 10)
    /\ properties = <<"seebeck", "mobility.overall">>
    /\ EvaluatedHere = {1, 2}
    /\ new_transport["seebeck"] = old_transport["seebeck"]
    /\ HasElement(3600, 3000)
    /\ ~converged

\* C2 as stated: an element is exempted exactly when both averages are below
\* 1 in absolute magnitude, so the result is the conjunction over the
\* evaluated elements of (|new| < 1 and |old| < 1) or diff <= tol.
C2_ExemptBelowMagnitudeOne ==
    Done =>
        (converged <=>
            \A i \in EvaluatedHere : \A j \in Grid :
               \/ Abs(NewAvg(i)[j]) < One /\ Abs(OldAvg(i)[j]) < One
               \/ Leq(Diff(NewAvg(i)[j], OldAvg(i)[j]), tol))

\* the relative difference of C3 as stated, |new - old| / new, and as amended,
\* |new - old| / |new|; 0 where new is 0
SignedRelativeDiff(new_avg, old_avg) ==
    IF new_avg = 0 THEN Rat(0, 1) ELSE Rat(Abs(new_avg - old_avg), new_avg)

AbsRelativeDiff(new_avg, old_avg) ==
    IF new_avg = 0 THEN Rat(0, 1) ELSE Rat(Abs(new_avg - old_avg), Abs(new_avg))

\* C3 as stated: the diff compared with tol is |new_avg - old_avg| / new_avg.
C3_DiffOverSignedNew ==
    Done =>
        (converged <=>
            \A i \in EvaluatedHere : \A j \in Grid :
               \/ LessThanOne(NewAvg(i)[j], OldAvg(i)[j])
               \/ Leq(SignedRelativeDiff(NewAvg(i)[j], OldAvg(i)[j]), tol))

\* C3 amended: the diff compared with tol is |new_avg - old_avg| / |new_avg|,
\* element-wise, the new average being the denominator; old 100, new 105 is
\* within tol 0.1.
C3_DiffOverAbsNew ==
    Done =>
        /\ converged <=>
             \A i \in EvaluatedHere : \A j \in Grid :
                \/ LessThanOne(NewAvg(i)[j], OldAvg(i)[j])
                \/ Leq(AbsRelativeDiff(NewAvg(i)[j], OldAvg(i)[j]), tol)
        /\ \A i \in EvaluatedHere : \A j \in Grid :
              NewAvg(i)[j] # 0 =>
                 /\ Leq(Diff(NewAvg(i)[j], OldAvg(i)[j]),
                        AbsRelativeDiff(NewAvg(i)[j], OldAvg(i)[j]))
                 /\ Leq(AbsRelativeDiff(NewAvg(i)[j], OldAvg(i)[j]),
                        Diff(NewAvg(i)[j], OldAvg(i)[j]))

\* the mobility goes from 100 to 105 at tol 0.1, within tol, and the Seebeck
\* coefficient from 100 to -120, a diff of 220/120 that is not converged
C3_Witness ==
    /\ Done
    /\ tol = Rat(1, 10)
    /\ EvaluatedHere = {1, 2}
    /\ HasElement(3150, 3000)
    /\ AllElementsConverged(new_transport["mobility.overall"],
                            old_transport["mobility.overall"], tol)
    /\ HasElement(0 - 3600, 3000)
    /\ ~converged

\* C4: an element whose new average is 0 never makes the result False: a
\* False result always has an element with a non-zero new average that is not
\* exempted and whose diff exceeds tol.
C4_NonFiniteDiffConverged ==
    (Done /\ ~converged) =>
        \E i \in EvaluatedHere : \E j \in Grid :
           /\ NewAvg(i)[j] # 0
           /\ ~LessThanOne(NewAvg(i)[j], OldAvg(i)[j])
           /\ ~Leq(Diff(NewAvg(i)[j], OldAvg(i)[j]), tol)

\* a Seebeck element goes from 100 to 0 (diff is inf, not exempted) and the
\* result is True
C4_Witness ==
    /\ Done
    /\ HasElement(0, 3000)
    /\ converged

\* C5: a property missing from either record is skipped: the result is the
\* result for the list without that property, wherever it stands in the list.
C5_MissingPropertySkipped ==
    Done =>
        \A i \in 1..Len(properties) :
           (properties[i] \notin DOMAIN new_transport
                \/ properties[i] \notin DOMAIN old_transport) =>
              converged = _is_converged(new_transport, old_transport, tol,
                                        RemoveAt(properties, i))

\* the first property is in one record only, the second one is evaluated and
\* is not converged
C5_Witness ==
    /\ Done
    /\ Len(properties) = 2
    /\ (properties[1] \in DOMAIN new_transport)
          # (properties[1] \in DOMAIN old_transport)
    /\ EvaluatedHere = {2}
    /\ ~converged

\* C6: when no property is evaluated the result is True.
C6_VacuouslyConverged ==
    (Done /\ EvaluatedHere = {}) => converged

\* properties are listed, the records are not empty, yet none is in both
C6_Witness ==
    /\ Done
    /\ Len(properties) = 2
    /\ DOMAIN new_transport # {}
    /\ DOMAIN old_transport # {}
    /\ EvaluatedHere = {}
    /\ converged

\* C7: identical records are converged, also with zero and negative averages.
C7_IdenticalRecordsConverged ==
    (Done /\ new_transport = old_transport) => converged

\* identical records with both properties evaluated: mobility 100 (not
\* exempted), Seebeck 0 and -100
C7_Witness ==
    /\ Done
    /\ new_transport = old_transport
    /\ EvaluatedHere = {1, 2}
    /\ HasElement(3000, 3000)
    /\ HasElement(0, 0)
    /\ HasElement(0 - 3000, 0 - 3000)
    /\ converged

----------------------------------------------------------------------------
(* Properties of the tasks, checked under Spec *)

TaskIndex(name) == {i \in 1..Len(tasks) : tasks[i].name = name}

\* CheckConvergence has just returned: the next task has not run yet
JustChecked ==
    /\ status = "RUNNING"
    /\ task_i - 1 \in TaskIndex("CheckConvergence")

LastLoc == fw_spec["calc_locs"][Len(fw_spec["calc_locs"])]

\* a prior transport record exists: calc_locs is not empty, its most recent
\* entry is an amset one and that directory holds a transport file
PriorFound ==
    /\ "calc_locs" \in DOMAIN fw_spec
    /\ Len(fw_spec["calc_locs"]) > 0
    /\ LastLoc.name \in {"amset", "amset coarse"}
    /\ dirs[LastLoc.path].transport # None

\* C8: CheckConvergence always writes a boolean "converged" to the spec and
\* never raises; without a prior transport record the flag is False and
\* _is_converged is not invoked; with one the flag is the result of
\* _is_converged on the current and the prior record.
C8_CheckConvergenceFlag ==
    /\ error # "StopIteration"
    /\ JustChecked =>
          /\ "converged" \in DOMAIN fw_spec
          /\ fw_spec["converged"] \in BOOLEAN
          /\ IF PriorFound
             THEN /\ conv_call # None
                  /\ conv_call[1].new = dirs[cwd].transport[1]
                  /\ conv_call[1].old = dirs[LastLoc.path].transport[1]
                  /\ fw_spec["converged"] =
                        _is_converged(dirs[cwd].transport[1],
                                      dirs[LastLoc.path].transport[1],
                                      tasks[task_i - 1].tolerance[1],
                                      <<"mobility.overall", "seebeck">>)
             ELSE /\ conv_call = None
                  /\ fw_spec["converged"] = FALSE

\* a detour compares its transport record with its parent's and finds the
\* mobility not converged
C8_Witness ==
    /\ JustChecked
    /\ cwd = 2
    /\ PriorFound
    /\ LastLoc.path = 1
    /\ Len(fw_spec["calc_locs"]) = 2
    /\ ~ContainsAmset(fw_spec["calc_locs"][1].name)
    /\ conv_call # None
    /\ fw_spec["converged"] = FALSE

\* ResubmitUnconverged has run: it returned or it raised
ResubmitRan ==
    /\ Len(tasks) \in TaskIndex("ResubmitUnconverged")
    /\ \/ status = "COMPLETED"
       \/ status = "FIZZLED" /\ task_i = Len(tasks)

\* the increment as configured: interpolation_increase, 10 when not given
ConfiguredIncrease ==
    IF tasks[Len(tasks)].interpolation_increase = None THEN 10
    ELSE tasks[Len(tasks)].interpolation_increase[1]

\* the settings a retry Firework was created with
RetrySettings(fw) == fw.spec["_tasks"][2].settings_updates

\* C9 as stated: with the flag False, ResubmitUnconverged requests exactly one
\* retry whose settings are the settings.yaml of the run with
\* interpolation_factor increased by the configured increment (default 10) and
\* nothing else changed; with the flag True it requests nothing.  (Stated for
\* the increments other than 0 only, which line 131 replaces by 10.)
C9_OneRetryWithIncreasedFactor ==
    (ResubmitRan /\ ConfiguredIncrease # 0) =>
        IF "converged" \in DOMAIN fw_spec /\ fw_spec["converged"] = FALSE
        THEN /\ Len(detours) = 1
             /\ "interpolation_factor" \in DOMAIN dirs[cwd].settings[1]
             /\ LET old == dirs[cwd].settings[1]
                    new == RetrySettings(detours[1])
                IN  /\ DOMAIN new = DOMAIN old
                    /\ new["interpolation_factor"] =
                          old["interpolation_factor"] + ConfiguredIncrease
                    /\ \A k \in DOMAIN old \ {"interpolation_factor"} :
                          new[k] = old[k]
        ELSE detours = <<>>

\* What ResubmitUnconverged does when it does not raise: with the flag False,
\* one retry with interpolation_factor increased by the increment (10 for an
\* increment that is not given or is 0) and the other settings unchanged; with
\* the flag True or absent, nothing.  It raises KeyError exactly when the flag
\* is False and settings.yaml has no interpolation_factor.
ResubmitWithFactorPresent ==
    ResubmitRan =>
        LET unconverged == "converged" \in DOMAIN fw_spec /\ ~fw_spec["converged"]
            old == dirs[cwd].settings[1]
            inc == IF ConfiguredIncrease = 0 THEN 10 ELSE ConfiguredIncrease
        IN  /\ status = "FIZZLED" <=>
                  (unconverged /\ "interpolation_factor" \notin DOMAIN old)
            /\ status = "FIZZLED" => error = "KeyError" /\ detours = <<>>
            /\ (status = "COMPLETED" /\ ~unconverged) => detours = <<>>
            /\ (status = "COMPLETED" /\ unconverged) =>
                  /\ Len(detours) = 1
                  /\ RetrySettings(detours[1]) =
                        [old EXCEPT !["interpolation_factor"] = @ + inc]

\* C10: the retry's spec holds, besides its own tasks, exactly the allow-listed
\* keys that the parent's spec holds, each with the parent's value; no other
\* key of the parent's spec, "converged" in particular, is in it.
C10_OnlyAllowListedKeysCarried ==
    (status = "COMPLETED" /\ detours # <<>>) =>
        LET retry == detours[1].spec
            allowed == {"_fworker", "_category", "_queueadaptor", "calc_locs"}
        IN  /\ DOMAIN retry = {"_tasks"} \cup (allowed \cap DOMAIN fw_spec)
            /\ \A k \in allowed \cap DOMAIN fw_spec : retry[k] = fw_spec[k]
            /\ "converged" \notin DOMAIN retry
            /\ Len(retry["_tasks"]) = 8
            /\ retry["_tasks"][1].name = "CopyInputs"

\* a parent whose spec holds the allow-listed keys as well as "tags",
\* "converged" and "_fw_env" creates a retry
C10_Witness ==
    /\ status = "COMPLETED"
    /\ detours # <<>>
    /\ {"_fworker", "_category", "_queueadaptor", "calc_locs", "tags",
        "converged", "_fw_env"} \subseteq DOMAIN fw_spec
    /\ "_fworker" \in DOMAIN detours[1].spec
    /\ Len(detours[1].spec["calc_locs"]) = 2

----------------------------------------------------------------------------
(* Properties of a chain of resubmitted attempts, checked under Spec *)

\* the tolerance the CheckConvergence task of a task list checks with
CheckTolerance(task_list) ==
    LET i == CHOOSE i \in 1..Len(task_list) : task_list[i].name = "CheckConvergence"
    IN  Tolerance(task_list[i])

\* C11 as stated: every convergence check of a chain uses the tolerance given
\* to the original AmsetFW, i.e. each retry that ResubmitUnconverged creates
\* checks with the tolerance of the attempt that created it.
C11_SameToleranceAlongChain ==
    (status = "COMPLETED" /\ detours # <<>>) =>
        CheckTolerance(detours[1].spec["_tasks"]) = CheckTolerance(tasks)

\* What the code does: every retry checks with the default tolerance of
\* AmsetFW, 0.1, whatever the tolerance of the attempt that created it.
RetryChecksWithDefaultTolerance ==
    /\ (status = "COMPLETED" /\ detours # <<>>) =>
          CheckTolerance(detours[1].spec["_tasks"]) = Rat(1, 10)
    /\ (cwd > 1 /\ conv_call # None) => conv_call[1].tol = Rat(1, 10)

\* RunAmset has run in this launch: settings.yaml is what amset ran with
RanAmset == \E i \in TaskIndex("RunAmset") : task_i > i

\* the interpolation_factor attempt n ran amset with
FactorRun(n) == dirs[n].settings[1]["interpolation_factor"]

\* the interpolation_factor a retry was created with by ResubmitUnconverged:
\* its parent's plus the increment
FactorRequested == tasks[2].settings_updates["interpolation_factor"]

EnvUpdates == fw_spec["_fw_env"]["amset_settings_updates"]

\* C12 as stated: a retry runs amset with the interpolation_factor it was
\* created with, its parent's plus the increment, which is strictly greater
\* than the factor its parent ran with; no two attempts of a chain run with
\* the same factor.
C12_RetryRunsWithLargerFactor ==
    (cwd > 1 /\ RanAmset) =>
        /\ "interpolation_factor" \in DOMAIN dirs[cwd].settings[1]
        /\ FactorRun(cwd) = FactorRequested
        /\ FactorRun(cwd) > FactorRun(cwd - 1)
        /\ \A m \in 1..cwd : \A n \in 1..cwd :
              m # n => FactorRun(m) # FactorRun(n)

\* What the code does: the worker's env update is applied last in every
\* attempt, so an interpolation_factor in it is the factor of every attempt;
\* without one, a retry runs with the factor it was created with.
EnvFactorOverridesRetry ==
    (cwd > 1 /\ RanAmset) =>
        IF "interpolation_factor" \in DOMAIN EnvUpdates
        THEN /\ FactorRun(cwd) = EnvUpdates["interpolation_factor"]
             /\ FactorRun(cwd) = FactorRun(cwd - 1)
        ELSE /\ FactorRun(cwd) = FactorRequested
             /\ FactorRun(cwd) > FactorRun(cwd - 1)

====
